---------------------------- MODULE Spec2Model ----------------------------
(***************************************************************************)
(* A model of src/src/serveGuiAndSharedFiles.ts: the request router        *)
(* serveGuiAndSharedFiles (one request, rule by rule), the delete workflow *)
(* deleteNode, the stream adapters createStreamLimiter, AsapStream and     *)
(* asyncGeneratorToReadable, the network-mask matcher makeNetMatcher with  *)
(* its cache netMatches, and the folder listing sendFolderList.            *)
(*                                                                         *)
(* Specifications:                                                         *)
(*   Spec         one request through the router, with the upload sink's   *)
(*                lock tokens, the body stream's 'error' event and the     *)
(*                hooks as the environment                                 *)
(*   FairSpec     Spec with weak fairness of the router's own steps        *)
(*   LimiterSpec  createStreamLimiter fed a sequence of chunks             *)
(*   AsapSpec     AsapStream over promises settling in any order           *)
(*   GenSpec      asyncGeneratorToReadable read, then destroyed            *)
(*   MatcherSpec  makeNetMatcher compiling a mask and matching an address  *)
(*   CacheSpec    netMatches called repeatedly with its cache              *)
(*   ListSpec     sendFolderList streaming the entries of a walk           *)
(***************************************************************************)
EXTENDS Integers, Sequences, FiniteSets, TLC

(***************************************************************************)
(* Program constants (imported from ./cross-const at lines 6-9).           *)
(***************************************************************************)
HTTP_OK == 200
HTTP_BAD_REQUEST == 400
HTTP_UNAUTHORIZED == 401
HTTP_FORBIDDEN == 403
HTTP_NOT_FOUND == 404
HTTP_METHOD_NOT_ALLOWED == 405
HTTP_SERVER_ERROR == 500

(***************************************************************************)
(* Bounds of the model.                                                    *)
(***************************************************************************)
\* the largest number of file fields of one multipart POST
MaxFields == 2
\* the largest number of chunks written to a limiter
MaxChunks == 3
\* the largest length of one chunk
MaxChunkLen == 6
\* the largest limit of a limiter
MaxLimit == 10
\* the largest number of promises handed to an AsapStream
MaxPromises == 3
\* the largest number of _read calls on an AsapStream
MaxReads == 2
\* the largest number of items a generator yields
MaxItems == 6
\* the number of bits of an IPv4 address of the model
AddrBits == 2
\* the largest number of netMatches calls on one cache
MaxCalls == 3
\* the largest number of entries a walk of a folder yields
MaxEntries == 3

(***************************************************************************)
(* Values.  JavaScript's undefined is the string "undefined"; a query      *)
(* parameter given without a value is the empty string.                    *)
(***************************************************************************)
Undefined == "undefined"

Methods == {"GET", "PUT", "POST", "DELETE"}

\* ctx.query.get
GetValues == {Undefined, "", "icon", "zip", "list", "other"}

\* ctx.query.authenticate
AuthenticateValues == {Undefined, "", "Basic", "Digest"}

\* messages of the errors the storage layer and the hooks raise; an Error
\* built without a message has the empty message
ErrMessages == {"", "EPERM"}

\* what statusCodeForMissingPerm returns: 0 (permitted) or the denial status
PermResults == {0, HTTP_UNAUTHORIZED, HTTP_FORBIDDEN}

\* a VFS node, as far as the router reads it (dir: nodeIsDirectory's answer)
Nodes == [source : BOOLEAN, url : BOOLEAN, default : BOOLEAN, icon : BOOLEAN,
          dir : BOOLEAN]

NoNode == [none |-> TRUE]

\* the final URIs a lock token of the field named f resolves to: the
\* destination as requested (n = 0) or renamed by the sink (n = 1)
UrisOf(f) == { [name |-> f, n |-> k] : k \in 0..1 }

\* the rules of the router, in the order of the source
RuleOrder == << "dev", "frontend", "adminRoot", "admin", "icons", "webdav",
                "put", "favicon", "resolve", "post", "delete", "defaultDoc",
                "getIcon", "nonDir", "slash", "listPerm", "terminal" >>

RuleIdx(r) == CHOOSE i \in 1..Len(RuleOrder) : RuleOrder[i] = r

(***************************************************************************)
(* JavaScript and Koa helpers.                                             *)
(***************************************************************************)
\* x is truthy: neither undefined nor the empty string
Truthy(x) == x \notin {Undefined, ""}

\* String(err) of an Error with message m
ErrorToString(m) == IF m = "" THEN "Error" ELSE "Error: " \o m

\* err.message || String(err)
MessageOrString(m) == IF Truthy(m) THEN m ELSE ErrorToString(m)

NoBody == [kind |-> "none"]
TextBody(s) == [kind |-> "text", text |-> s]
UriBody(u) == [kind |-> "uri", uri |-> u]
UrisBody(us) == [kind |-> "uris", uris |-> us]
PageBody(code) == [kind |-> "page", code |-> code]

\* ctx.status = s
SetStatus(c, s) == [c EXCEPT !.status = s, !.explicit = TRUE]

\* ctx.body = b: Koa sets status 200 unless a status was set explicitly
SetBody(c, b) ==
    [c EXCEPT !.body = b,
              !.status = IF c.explicit THEN c.status ELSE HTTP_OK]

\* sendErrorPage(ctx, code); code 0 stands for the call without a code,
\* which renders the page of the status already set
sendErrorPage(c, code) ==
    LET s == IF code = 0 THEN c.status ELSE code
    IN  [c EXCEPT !.status = s, !.explicit = TRUE, !.body = PageBody(s)]

\* statusCodeForMissingPerm(node, perm, ctx) returning p: a denial is also
\* assigned to ctx.status
statusCodeForMissingPerm(c, p) ==
    IF p = 0 THEN c ELSE SetStatus(c, p)

\* a collaborator invoked by the code of rule r
Call(fn, arg, r) == [fn |-> fn, arg |-> arg, rule |-> r]

\* the guard of rule r evaluated to h
Eval(r, h) == [rule |-> r, hit |-> h]

VARIABLES
    pc,       \* the router's position: the rule about to be evaluated, or
              \* an await the handler is suspended at, "done" (returned),
              \* "thrown" (the handler's promise rejected)
    req,      \* the request: its method and, each from the line on that
              \* first reads it, query.get, path.endsWith('/'), whether
              \* query.dl is given, query.authenticate, whether the user
              \* agent has a download manager's signature, and
              \* detectBasicAgent's answer
    ctx,      \* the Koa context: status, body, headers, state
    node,     \* the resolved node (NoNode before resolution)
    locks,    \* the lock tokens collected (PUT: dest.lockMiddleware)
    stream,   \* the consumer of the request body: PUT's piped stream
              \* ("open", "error" with the error's message), POST's form
              \* parser ("parsing", "parsed")
    del,      \* deleteNode's result and what it did
    calls,    \* the collaborators invoked, in order
    trace,    \* the guards evaluated, in order, with their outcome
    lim,      \* a createStreamLimiter instance and its input
    asap,     \* an AsapStream, its promises and the microtask queue
    gen,      \* a stream made by asyncGeneratorToReadable and its generator
    net,      \* the cache of netMatches and its last call
    fl        \* a sendFolderList call: its query, the walk and the body

vars == << pc, req, ctx, node, locks, stream, del, calls, trace, lim, asap, gen, net, fl >>

routerVars == << pc, req, ctx, node, locks, stream, del, calls, trace >>

\* the stream adapters other than the limiter
others == << asap, gen, net, fl >>

\* the state of a Koa context a request starts with; state.uploadPath names
\* the file of the current upload (0: not set)
InitCtx ==
    [ status |-> HTTP_NOT_FOUND, explicit |-> FALSE, body |-> NoBody,
      auth |-> Undefined, server |-> FALSE, serveApp |-> FALSE,
      considerAsGui |-> FALSE, uploadPath |-> 0, uploads |-> << >> ]

\* what deleteNode returns: a number, or an Error with a message
NumRes(n) == [kind |-> "num", val |-> n, message |-> ""]
ErrorRes(m) == [kind |-> "error", val |-> 0, message |-> m]

\* deleteNode's bookkeeping: its result, the permission's answer, the outcome
\* of the 'deleting' hook, whether rm removed the source, whether the comment
\* was cleared, and ctx.status when deleteNode returned
InitDel == [ res |-> [kind |-> "none", val |-> 0, message |-> ""],
             perm |-> 0, hook |-> "none", removed |-> FALSE, cleared |-> FALSE,
             before |-> 0 ]

NoStream == [state |-> "none", message |-> ""]

\* a limiter: its limit, its counter `got`, the chunks pushed downstream, the
\* number of calls of this.end(); and the chunks written to it so far, each
\* with whether the stream passed it to transform
IdleLim == [ limit |-> 0, got |-> 0, out |-> << >>, ended |-> 0,
             input |-> << >>, on |-> FALSE ]

\* a promise handed to an AsapStream: pending, resolved with a value
\* ("undefined", "null", or any other value: "value") or rejected
PendingPromise == [state |-> "pending", val |-> Undefined]

\* an AsapStream: its promises, the order in which they settled, the field
\* `finished`, the number of _read calls, the queue of promise reactions
\* (microtasks), the number of promises Promise.allSettled has seen settle,
\* what the stream emitted, whether the end of stream was signalled, and
\* how many promises had settled when the reactions were registered
IdleAsap == [ on |-> FALSE, promises |-> << >>, order |-> << >>,
              finished |-> FALSE, reads |-> 0, jobs |-> << >>, count |-> 0,
              out |-> << >>, ended |-> FALSE, early |-> 0 ]

\* a stream made by asyncGeneratorToReadable: the items its generator has
\* still to yield, whether the generator was released by return(), whether
\* a next() is pending, the stream's flags (reading: a _read is
\* outstanding), and what happened, in order
IdleGen == [ on |-> FALSE, items |-> 0, released |-> FALSE, pending |-> FALSE,
             reading |-> FALSE, ended |-> FALSE, destroyed |-> FALSE,
             events |-> << >> ]

\* the matcher under test: the mask, emptyMaskReturns, how the runtime
\* parses an undefined address, the compiled matcher, the ip and the result
\* of the last call; and the cache of netMatches with the number of calls
IdleNet == [ on |-> FALSE, stage |-> "idle", mask |-> << >>, e |-> FALSE,
             undef |-> "default",
             matcher |-> [kind |-> "none", val |-> FALSE, text |-> << >>,
                          neg |-> FALSE, rules |-> << >>],
             ip |-> [t |-> "junk", v |-> 0], result |-> FALSE,
             cache |-> << >>, calls |-> 0 ]

\* a call of sendFolderList: the entries walkNode yields, the outcome of the
\* 'getList' hook, the query's folders, the prepend in effect, ctx.type,
\* whether ctx.body was set, how far the walk was consumed, the lines the
\* body stream emitted, and whether it ended
IdleList == [ on |-> FALSE, stage |-> "idle", walk |-> << >>, vetoed |-> FALSE,
              folders |-> Undefined, prepend |-> Undefined, type |-> Undefined,
              body |-> "none", pos |-> 0, out |-> << >>, ended |-> FALSE ]

Init ==
    /\ pc = "dev"
    /\ req \in [method : Methods, get : {Undefined}, endsSlash : {FALSE},
                 dl : {FALSE}, authenticate : {Undefined},
                 downloadManager : {FALSE}, basicAgent : {FALSE}]
    /\ ctx = InitCtx
    /\ node = NoNode
    /\ locks = << >>
    /\ stream = NoStream
    /\ del = InitDel
    /\ calls = << >>
    /\ trace = << >>
    /\ lim = IdleLim
    /\ asap = IdleAsap
    /\ gen = IdleGen
    /\ net = IdleNet
    /\ fl = IdleList

\* rule r did not match: go on with rule next
Skip(r, next) ==
    /\ pc' = next
    /\ trace' = Append(trace, Eval(r, FALSE))
    /\ UNCHANGED << req, ctx, node, locks, stream, del, calls, lim, others >>

(***************************************************************************)
(* Rules 1-5: paths served without the VFS (lines 34-55).                  *)
(***************************************************************************)
DevAssetRule ==
    /\ pc = "dev"
    /\ \/ Skip("dev", "frontend")
       \/ /\ \E refererAdmin \in BOOLEAN :
                calls' = Append(calls,
                    Call(IF refererAdmin THEN "serveAdminFiles"
                         ELSE "serveFrontendFiles", 0, "dev"))
          /\ trace' = Append(trace, Eval("dev", TRUE))
          /\ pc' = "done"
          /\ UNCHANGED << req, ctx, node, locks, stream, del, lim, others >>

FrontendRule ==
    /\ pc = "frontend"
    /\ \/ Skip("frontend", "adminRoot")
       \/ /\ calls' = Append(calls, Call("serveFrontendPrefixed", 0, "frontend"))
          /\ trace' = Append(trace, Eval("frontend", TRUE))
          /\ pc' = "done"
          /\ UNCHANGED << req, ctx, node, locks, stream, del, lim, others >>

AdminRootRule ==
    /\ pc = "adminRoot"
    /\ \/ Skip("adminRoot", "admin")
       \/ /\ calls' = Append(calls, Call("redirect", 0, "adminRoot"))
          /\ trace' = Append(trace, Eval("adminRoot", TRUE))
          /\ pc' = "done"
          /\ UNCHANGED << req, ctx, node, locks, stream, del, lim, others >>

AdminRule ==
    /\ pc = "admin"
    /\ \/ Skip("admin", "icons")
       \/ /\ \E allowAdmin \in BOOLEAN :
                IF allowAdmin
                THEN /\ calls' = Append(calls,
                            Call("serveAdminPrefixed", 0, "admin"))
                     /\ ctx' = ctx
                ELSE /\ calls' = Append(calls,
                            Call("sendErrorPage", HTTP_FORBIDDEN, "admin"))
                     /\ ctx' = sendErrorPage(ctx, HTTP_FORBIDDEN)
          /\ trace' = Append(trace, Eval("admin", TRUE))
          /\ pc' = "done"
          /\ UNCHANGED << req, node, locks, stream, del, lim, others >>

\* IconRule without the returns of lines 49 and 52: a missing icon falls
\* through to the later rules
IconRule_FallThrough ==
    /\ pc = "icons"
    /\ \/ Skip("icons", "webdav")
       \/ /\ \E iconName \in BOOLEAN, file \in BOOLEAN :
                IF iconName /\ file
                THEN /\ ctx' = [ctx EXCEPT !.considerAsGui = TRUE]
                     /\ calls' = Append(calls, Call("serveFile", 0, "icons"))
                     /\ pc' = "done"
                ELSE /\ UNCHANGED << ctx, calls >>
                     /\ pc' = "webdav"
          /\ trace' = Append(trace, Eval("icons", TRUE))
          /\ UNCHANGED << req, node, locks, stream, del, lim, others >>

IconRule ==
    /\ pc = "icons"
    /\ \/ Skip("icons", "webdav")
       \/ /\ \E iconName \in BOOLEAN, file \in BOOLEAN :
                IF iconName /\ file
                THEN /\ ctx' = [ctx EXCEPT !.considerAsGui = TRUE]
                     /\ calls' = Append(calls, Call("serveFile", 0, "icons"))
                ELSE UNCHANGED << ctx, calls >>
          /\ trace' = Append(trace, Eval("icons", TRUE))
          /\ pc' = "done"
          /\ UNCHANGED << req, node, locks, stream, del, lim, others >>

(***************************************************************************)
(* Rule 6: WebDAV (line 56).                                               *)
(***************************************************************************)
WebdavRule ==
    /\ pc = "webdav"
    /\ calls' = Append(calls, Call("handledWebdav", 0, "webdav"))
    /\ \E handled \in BOOLEAN :
          /\ trace' = Append(trace, Eval("webdav", handled))
          /\ pc' = IF handled THEN "done" ELSE "put"
    /\ UNCHANGED << req, ctx, node, locks, stream, del, lim, others >>

(***************************************************************************)
(* Rule 7: PUT (lines 57-76).                                              *)
(***************************************************************************)
\* a lock token of the upload sink, for the field (or file) named f
PendingLock(f) == [field |-> f, state |-> "pending", value |-> [name |-> f, n |-> 0]]

\* lines 57-72, up to the await of dest.lockMiddleware
PutRule ==
    /\ pc = "put"
    /\ IF req.method # "PUT"
       THEN Skip("put", "favicon")
       ELSE /\ trace' = Append(trace, Eval("put", TRUE))
            /\ \E folder \in BOOLEAN, dest \in BOOLEAN :
                  IF ~folder
                  THEN /\ ctx' = sendErrorPage(ctx, HTTP_NOT_FOUND)
                       /\ calls' = calls \o
                            << Call("urlToNode", 0, "put"),
                               Call("sendErrorPage", HTTP_NOT_FOUND, "put") >>
                       /\ pc' = "done"
                       /\ UNCHANGED << locks, stream >>
                  ELSE /\ ctx' = [ctx EXCEPT !.uploadPath = 1]
                       /\ calls' = calls \o
                            << Call("urlToNode", 0, "put"),
                               Call(IF dest THEN "uploadWriter accepted"
                                    ELSE "uploadWriter declined", 1, "put") >>
                       /\ IF dest
                          THEN /\ locks' = << PendingLock(1) >>
                               /\ stream' = [stream EXCEPT !.state = "open"]
                               /\ pc' = "putWait"
                          ELSE /\ pc' = "done"
                               /\ UNCHANGED << locks, stream >>
            /\ UNCHANGED << req, node, del, lim, others >>

\* lines 67-70: the 'error' handler of ctx.req.pipe(dest).  The sink's token
\* settles once the write is over, so the stream errs while it is pending.
PutStreamError ==
    /\ stream.state = "open"
    /\ locks[1].state = "pending"
    /\ \E m \in ErrMessages :
          /\ ctx' = SetBody(SetStatus(ctx, HTTP_SERVER_ERROR),
                            TextBody(MessageOrString(m)))
          /\ stream' = [state |-> "error", message |-> m]
    /\ UNCHANGED << pc, req, node, locks, del, calls, trace, lim, others >>

\* the upload sink settles a lock token: resolved with the final URI, or
\* rejected
LockSettle ==
    \E i \in 1..Len(locks) :
        /\ locks[i].state = "pending"
        /\ \/ \E u \in UrisOf(locks[i].field) :
                 locks' = [locks EXCEPT ![i].state = "resolved", ![i].value = u]
           \/ locks' = [locks EXCEPT ![i].state = "rejected"]
        /\ UNCHANGED << pc, req, ctx, node, stream, del, calls, trace, lim, others >>

\* PutResume without the await: the body is set while the token is pending
PutResume_NoAwait ==
    /\ pc = "putWait"
    /\ ctx' = SetBody(ctx, UriBody(locks[1].value))
    /\ pc' = "done"
    /\ UNCHANGED << req, node, locks, stream, del, calls, trace, lim, others >>

\* lines 72-75: the handler resumes from `await dest.lockMiddleware`
PutResume ==
    /\ pc = "putWait"
    /\ locks[1].state # "pending"
    /\ IF locks[1].state = "resolved"
       THEN /\ ctx' = SetBody(ctx, UriBody(locks[1].value))
            /\ pc' = "done"
       ELSE /\ pc' = "thrown"
            /\ ctx' = ctx
    /\ UNCHANGED << req, node, locks, stream, del, calls, trace, lim, others >>

(***************************************************************************)
(* Rules 8-9: favicon and node resolution (lines 77-81).                   *)
(***************************************************************************)
FaviconRule ==
    /\ pc = "favicon"
    /\ \/ Skip("favicon", "resolve")
       \/ /\ calls' = Append(calls, Call("serveFile", 0, "favicon"))
          /\ trace' = Append(trace, Eval("favicon", TRUE))
          /\ pc' = "done"
          /\ UNCHANGED << req, ctx, node, locks, stream, del, lim, others >>

ResolveRule ==
    /\ pc = "resolve"
    /\ \/ /\ \E n \in Nodes : node' = n
          /\ calls' = Append(calls, Call("urlToNode", 0, "resolve"))
          /\ trace' = Append(trace, Eval("resolve", FALSE))
          /\ pc' = "post"
          /\ ctx' = ctx
       \/ /\ node' = node
          /\ calls' = calls \o << Call("urlToNode", 0, "resolve"),
                                  Call("sendErrorPage", HTTP_NOT_FOUND, "resolve") >>
          /\ trace' = Append(trace, Eval("resolve", TRUE))
          /\ ctx' = sendErrorPage(ctx, HTTP_NOT_FOUND)
          /\ pc' = "done"
    /\ UNCHANGED << req, locks, stream, del, lim, others >>

(***************************************************************************)
(* Rule 10: multipart POST (lines 82-107).                                 *)
(***************************************************************************)
\* lines 82-101, up to form.parse
PostRule ==
    /\ pc = "post"
    /\ IF req.method # "POST"
       THEN Skip("post", "delete")
       ELSE /\ trace' = Append(trace, Eval("post", TRUE))
            /\ \E multipart \in BOOLEAN :
                  IF ~multipart
                  THEN /\ ctx' = SetStatus(ctx, HTTP_BAD_REQUEST)
                       /\ pc' = "done"
                       /\ stream' = stream
                  ELSE /\ ctx' = [ctx EXCEPT !.uploads = << >>]
                       /\ pc' = "postParse"
                       /\ stream' = [stream EXCEPT !.state = "parsing"]
            /\ UNCHANGED << req, node, locks, del, calls, lim, others >>

\* lines 90-99: fileWriteStreamHandler, called by the parser for a file field
fileWriteStreamHandler ==
    /\ pc = "postParse"
    /\ Len(ctx.uploads) < MaxFields
    /\ LET fn == Len(ctx.uploads) + 1
       IN  /\ ctx' = [ctx EXCEPT !.uploadPath = fn,
                                 !.uploads = Append(ctx.uploads, fn)]
           /\ \E ret \in BOOLEAN :
                 /\ calls' = Append(calls,
                        Call(IF ret THEN "uploadWriter accepted"
                             ELSE "uploadWriter declined", fn, "post"))
                 /\ locks' = IF ret THEN Append(locks, PendingLock(fn)) ELSE locks
    /\ UNCHANGED << pc, req, node, stream, del, trace, lim, others >>

\* lines 101-104: the parser's callback, with or without an error, resolves
\* the awaited promise with Promise.all(locks)
PostParsed ==
    /\ pc = "postParse"
    /\ \E err \in BOOLEAN :
          /\ calls' = IF err THEN Append(calls, Call("console.error", 0, "post"))
                      ELSE calls
          /\ stream' = [state |-> "parsed",
                        message |-> IF err THEN "parser error" ELSE ""]
    /\ pc' = "postWait"
    /\ UNCHANGED << req, ctx, node, locks, del, trace, lim, others >>

\* PromiseAll as Promise.allSettled: fulfilled once no token is pending
PromiseAll_AllSettled(ls) ==
    IF \A i \in 1..Len(ls) : ls[i].state # "pending" THEN "resolved"
    ELSE "pending"

\* Promise.all(ls): fulfilled once every token is, rejected once one is
PromiseAll(ls) ==
    IF \E i \in 1..Len(ls) : ls[i].state = "rejected" THEN "rejected"
    ELSE IF \A i \in 1..Len(ls) : ls[i].state = "resolved" THEN "resolved"
    ELSE "pending"

\* the values Promise.all(ls) is fulfilled with: in the order of ls
PromiseAllValues(ls) == [i \in 1..Len(ls) |-> ls[i].value]

\* lines 101-106: the handler resumes from the await
PostResume ==
    /\ pc = "postWait"
    /\ PromiseAll(locks) # "pending"
    /\ IF PromiseAll(locks) = "resolved"
       THEN /\ ctx' = SetBody(ctx, UrisBody(PromiseAllValues(locks)))
            /\ pc' = "done"
       ELSE /\ pc' = "thrown"
            /\ ctx' = ctx
    /\ UNCHANGED << req, node, locks, stream, del, calls, trace, lim, others >>

(***************************************************************************)
(* Rule 11: DELETE (lines 108-116) and deleteNode (lines 323-341).         *)
(***************************************************************************)
\* line 108-109: the call of deleteNode
DeleteRule ==
    /\ pc = "delete"
    /\ IF req.method # "DELETE"
       THEN Skip("delete", "defaultDoc")
       ELSE /\ trace' = Append(trace, Eval("delete", TRUE))
            /\ calls' = Append(calls, Call("deleteNode", 0, "delete"))
            /\ pc' = "deleteNode"
            /\ UNCHANGED << req, ctx, node, locks, stream, del, lim, others >>

\* deleteNode asking the permission before it looks at the source
deleteNode_PermFirst ==
    /\ pc = "deleteNode"
    /\ \E p \in PermResults :
          /\ calls' = Append(calls,
                Call("statusCodeForMissingPerm can_delete", p, "delete"))
          /\ IF p # 0
             THEN /\ ctx' = statusCodeForMissingPerm(ctx, p)
                  /\ del' = [del EXCEPT !.res = NumRes(ctx'.status),
                                        !.perm = p,
                                        !.before = ctx'.status]
                  /\ pc' = "deleteRet"
             ELSE IF ~node.source
             THEN /\ ctx' = SetStatus(ctx, HTTP_METHOD_NOT_ALLOWED)
                  /\ del' = [del EXCEPT !.res = NumRes(HTTP_METHOD_NOT_ALLOWED),
                                        !.before = HTTP_METHOD_NOT_ALLOWED]
                  /\ pc' = "deleteRet"
             ELSE /\ UNCHANGED << ctx, del >>
                  /\ pc' = "deleting"
    /\ UNCHANGED << req, node, locks, stream, trace, lim, others >>

\* lines 324-328: the checks of the source and of the permission
deleteNode ==
    /\ pc = "deleteNode"
    /\ IF ~node.source
       THEN /\ ctx' = SetStatus(ctx, HTTP_METHOD_NOT_ALLOWED)
            /\ del' = [del EXCEPT !.res = NumRes(HTTP_METHOD_NOT_ALLOWED),
                                  !.before = HTTP_METHOD_NOT_ALLOWED]
            /\ calls' = calls
            /\ pc' = "deleteRet"
       ELSE \E p \in PermResults :
              /\ ctx' = statusCodeForMissingPerm(ctx, p)
              /\ calls' = Append(calls,
                    Call("statusCodeForMissingPerm can_delete", p, "delete"))
              /\ IF p # 0
                 THEN /\ del' = [del EXCEPT !.res = NumRes(ctx'.status),
                                            !.perm = p,
                                            !.before = ctx'.status]
                      /\ pc' = "deleteRet"
                 ELSE /\ del' = del
                      /\ pc' = "deleting"
    /\ UNCHANGED << req, node, locks, stream, trace, lim, others >>

\* lines 329-331, 338-340: the cancelable 'deleting' hook; a listener may
\* veto, and what it throws is caught and returned
deleteNode_deleting ==
    /\ pc = "deleting"
    /\ calls' = Append(calls, Call("emitAsync deleting", 0, "delete"))
    /\ \/ /\ del' = [del EXCEPT !.hook = "vetoed", !.res = NumRes(0),
                                !.before = ctx.status]
          /\ pc' = "deleteRet"
       \/ \E m \in ErrMessages :
             /\ del' = [del EXCEPT !.hook = "threw", !.res = ErrorRes(m),
                                   !.before = ctx.status]
             /\ pc' = "deleteRet"
       \/ /\ del' = [del EXCEPT !.hook = "passed"]
          /\ pc' = "rm"
    /\ UNCHANGED << req, ctx, node, locks, stream, trace, lim, others >>

\* lines 332-340: the recursive removal and the clearing of the comment;
\* what rm throws is caught and returned
deleteNode_rm ==
    /\ pc = "rm"
    /\ \/ /\ del' = [del EXCEPT !.removed = TRUE, !.cleared = TRUE,
                                !.res = NumRes(0), !.before = ctx.status]
          /\ calls' = calls \o << Call("rm", 0, "delete"),
                                  Call("setCommentFor", 0, "delete") >>
       \/ \E m \in ErrMessages :
             /\ del' = [del EXCEPT !.res = ErrorRes(m), !.before = ctx.status]
             /\ calls' = Append(calls, Call("rm", 0, "delete"))
    /\ pc' = "deleteRet"
    /\ UNCHANGED << req, ctx, node, locks, stream, trace, lim, others >>

\* DeleteResult testing `if (res) return` before `res instanceof Error`
DeleteResult_TruthyFirst ==
    /\ pc = "deleteRet"
    /\ ctx' = IF del.res.kind = "error" \/ del.res.val # 0 THEN ctx
              ELSE SetStatus(ctx, HTTP_OK)
    /\ pc' = "done"
    /\ UNCHANGED << req, node, locks, stream, del, calls, trace, lim, others >>

\* lines 110-115: the router translates deleteNode's result
DeleteResult ==
    /\ pc = "deleteRet"
    /\ ctx' = IF del.res.kind = "error"
              THEN SetStatus(SetBody(ctx, TextBody(MessageOrString(del.res.message))),
                             HTTP_SERVER_ERROR)
              ELSE IF del.res.val # 0 THEN ctx
              ELSE SetStatus(ctx, HTTP_OK)
    /\ pc' = "done"
    /\ UNCHANGED << req, node, locks, stream, del, calls, trace, lim, others >>

(***************************************************************************)
(* Rules 12-13: default document and get=icon (lines 117-125).             *)
(***************************************************************************)
\* lines 117-123; the query and the path's end are first read here, and the
\* model draws them here.  found: urlToNode(node.default, ctx, node)
DefaultDocRule ==
    /\ pc = "defaultDoc"
    /\ \E g \in GetValues, e \in BOOLEAN :
        /\ req' = [req EXCEPT !.get = g, !.endsSlash = e]
        /\ IF node.default /\ e /\ ~Truthy(g)
           THEN /\ trace' = Append(trace, Eval("defaultDoc", TRUE))
                /\ calls' = Append(calls, Call("urlToNode", 0, "defaultDoc"))
                /\ \E found \in Nodes \cup {NoNode}, html \in BOOLEAN :
                     /\ ctx' = IF found # NoNode /\ html
                               THEN [ctx EXCEPT !.considerAsGui = TRUE]
                               ELSE ctx
                     /\ node' = IF found # NoNode THEN found ELSE node
           ELSE /\ trace' = Append(trace, Eval("defaultDoc", FALSE))
                /\ UNCHANGED << ctx, node, calls >>
    /\ pc' = "getIcon"
    /\ UNCHANGED << locks, stream, del, lim, others >>

\* lines 124-125; arg 1: node.icon, arg 0: the path '|' that is not found
GetIconRule ==
    /\ pc = "getIcon"
    /\ IF req.get # "icon"
       THEN Skip("getIcon", "nonDir")
       ELSE /\ trace' = Append(trace, Eval("getIcon", TRUE))
            /\ calls' = Append(calls,
                  Call("serveFile", IF node.icon THEN 1 ELSE 0, "getIcon"))
            /\ pc' = "done"
            /\ UNCHANGED << req, ctx, node, locks, stream, del, lim, others >>

(***************************************************************************)
(* Rule 14: a node that is no directory (lines 126-132).                   *)
(***************************************************************************)
\* the test taking every status but 403 for a permission
Permitted_Unauthorized(p) == p # HTTP_FORBIDDEN

\* lines 129, 135: the status statusCodeForMissingPerm returned is falsy
Permitted(p) == p = 0

\* the test of line 132 ignoring the query: the shell is served always
dlUndefined_Ignored(dl) == TRUE

\* line 132: ctx.query.dl === undefined
dlUndefined(dl) == ~dl

NonDirRule ==
    /\ pc = "nonDir"
    /\ IF node.dir
       THEN /\ Skip("nonDir", "slash")
       ELSE /\ trace' = Append(trace, Eval("nonDir", TRUE))
            /\ pc' = "done"
            /\ IF node.url
               THEN /\ calls' = Append(calls, Call("redirect", 0, "nonDir"))
                    /\ UNCHANGED << ctx, req >>
               ELSE IF ~node.source
               THEN /\ calls' = Append(calls,
                         Call("sendErrorPage", HTTP_METHOD_NOT_ALLOWED, "nonDir"))
                    /\ ctx' = sendErrorPage(ctx, HTTP_METHOD_NOT_ALLOWED)
                    /\ req' = req
               ELSE \E p \in PermResults :
                    LET c1 == statusCodeForMissingPerm(ctx, p)
                        perm == Call("statusCodeForMissingPerm can_read", p, "nonDir")
                    IN  IF Permitted(p)
                        THEN /\ calls' = calls \o
                                  << perm, Call("serveFileNode", 0, "nonDir") >>
                             /\ ctx' = c1
                             /\ req' = req
                        ELSE IF c1.status # HTTP_UNAUTHORIZED
                        THEN /\ calls' = Append(calls, perm)
                             /\ ctx' = c1
                             /\ req' = req
                        ELSE \E basicAgent \in BOOLEAN, dl \in BOOLEAN :
                             /\ req' = [req EXCEPT !.basicAgent = basicAgent,
                                                   !.dl = dl]
                             /\ IF basicAgent
                                THEN /\ calls' = calls \o
                                          << perm, Call("detectBasicAgent", 1, "nonDir"),
                                             Call("sendErrorPage", 0, "nonDir") >>
                                     /\ ctx' = sendErrorPage(
                                          [c1 EXCEPT !.auth = "Basic"], 0)
                                ELSE IF dlUndefined(dl)
                                THEN /\ calls' = calls \o
                                          << perm, Call("detectBasicAgent", 0, "nonDir"),
                                             Call("serveFrontendFiles", 0, "nonDir") >>
                                     /\ ctx' = [c1 EXCEPT !.serveApp = TRUE]
                                ELSE /\ calls' = calls \o
                                          << perm, Call("detectBasicAgent", 0, "nonDir") >>
                                     /\ ctx' = c1
            /\ UNCHANGED << node, locks, stream, del, lim, others >>

(***************************************************************************)
(* Rules 15-17: directories (lines 133-149).                               *)
(***************************************************************************)
SlashRule ==
    /\ pc = "slash"
    /\ IF req.endsSlash
       THEN Skip("slash", "listPerm")
       ELSE /\ trace' = Append(trace, Eval("slash", TRUE))
            /\ calls' = Append(calls, Call("redirect", 0, "slash"))
            /\ pc' = "done"
            /\ UNCHANGED << req, ctx, node, locks, stream, del, lim, others >>

\* the challenge ignoring the query's value
ChallengeValue_Basic(authenticate) == "Basic"

\* line 142: authenticate || 'Basic'
ChallengeValue(authenticate) ==
    IF Truthy(authenticate) THEN authenticate ELSE "Basic"

\* lines 135-145; detectBasicAgent is asked only when neither the user
\* agent nor the query decides
ListPermRule ==
    /\ pc = "listPerm"
    /\ \E p \in PermResults :
        LET c1 == statusCodeForMissingPerm(ctx, p)
            perm == Call("statusCodeForMissingPerm can_list", p, "listPerm")
        IN  IF Permitted(p)
            THEN /\ trace' = Append(trace, Eval("listPerm", FALSE))
                 /\ calls' = Append(calls, perm)
                 /\ ctx' = c1
                 /\ pc' = "terminal"
                 /\ req' = req
            ELSE /\ trace' = Append(trace, Eval("listPerm", TRUE))
                 /\ pc' = "done"
                 /\ IF c1.status = HTTP_FORBIDDEN
                    THEN /\ calls' = calls \o
                              << perm, Call("sendErrorPage", HTTP_FORBIDDEN, "listPerm") >>
                         /\ ctx' = sendErrorPage(c1, HTTP_FORBIDDEN)
                         /\ req' = req
                    ELSE \E authenticate \in AuthenticateValues,
                            downloadManagerDetected \in BOOLEAN,
                            basicAgent \in BOOLEAN :
                         LET asked == ~downloadManagerDetected /\ ~Truthy(authenticate)
                             agent == IF asked
                                      THEN << Call("detectBasicAgent",
                                                   IF basicAgent THEN 1 ELSE 0,
                                                   "listPerm") >>
                                      ELSE << >>
                         IN
                         /\ asked \/ ~basicAgent
                         /\ req' = [req EXCEPT
                                      !.authenticate = authenticate,
                                      !.downloadManager = downloadManagerDetected,
                                      !.basicAgent = basicAgent]
                         /\ IF \/ downloadManagerDetected
                               \/ Truthy(authenticate)
                               \/ basicAgent
                            THEN /\ calls' = calls \o << perm >> \o agent
                                 /\ ctx' = [c1 EXCEPT
                                              !.auth = ChallengeValue(authenticate)]
                            ELSE /\ calls' = calls \o << perm >> \o agent \o
                                      << Call("serveFrontendFiles", 0, "listPerm") >>
                                 /\ ctx' = [c1 EXCEPT !.serveApp = TRUE]
    /\ UNCHANGED << node, locks, stream, del, lim, others >>

\* lines 146-149
TerminalRule ==
    /\ pc = "terminal"
    /\ trace' = Append(trace, Eval("terminal", TRUE))
    /\ ctx' = [ctx EXCEPT !.server = TRUE]
    /\ IF req.get = "zip"
       THEN calls' = Append(calls, Call("zipStreamFromFolder", 0, "terminal"))
       ELSE IF req.get = "list"
       THEN calls' = Append(calls, Call("sendFolderList", 0, "terminal"))
       ELSE \E basic \in BOOLEAN :
              calls' = calls \o
                 IF basic THEN << Call("basicWeb", 1, "terminal") >>
                 ELSE << Call("basicWeb", 0, "terminal"),
                         Call("serveFrontendFiles", 0, "terminal") >>
    /\ pc' = "done"
    /\ UNCHANGED << req, node, locks, stream, del, lim, others >>

(***************************************************************************)
(* createStreamLimiter (lines 307-321).  A byte is its offset in the       *)
(* input, so that a chunk is a sequence of consecutive numbers.            *)
(***************************************************************************)
\* chunk.slice(0, n)
Slice(chunk, n) == SubSeq(chunk, 1, IF n < Len(chunk) THEN n ELSE Len(chunk))

\* transform pushing the chunk that crosses the limit whole
transform_NoSlice(l, chunk) ==
    LET left == l.limit - l.got
        got == l.got + Len(chunk)
    IN  IF left > 0
        THEN [l EXCEPT !.got = got,
                       !.out = Append(l.out, chunk),
                       !.ended = IF got >= l.limit THEN l.ended + 1 ELSE l.ended]
        ELSE [l EXCEPT !.got = got]

\* lines 310-319: transform(chunk, enc, done) on the limiter l
transform(l, chunk) ==
    LET left == l.limit - l.got
        got == l.got + Len(chunk)
    IN  IF left > 0
        THEN [l EXCEPT !.got = got,
                       !.out = Append(l.out, IF Len(chunk) >= left
                                             THEN Slice(chunk, left)
                                             ELSE chunk),
                       !.ended = IF got >= l.limit THEN l.ended + 1 ELSE l.ended]
        ELSE [l EXCEPT !.got = got]

\* the bytes written to the limiter so far
InputBytes(l) ==
    LET RECURSIVE Sum(_)
        Sum(k) == IF k = 0 THEN 0 ELSE Sum(k - 1) + Len(l.input[k].chunk)
    IN  Sum(Len(l.input))

\* the next chunk of the input, of length n
NextChunk(l, n) == [i \in 1..n |-> InputBytes(l) + i]

\* line 307-308: a limiter is created
LimiterInit ==
    /\ \E limit \in 0..MaxLimit :
          lim = [IdleLim EXCEPT !.limit = limit, !.on = TRUE]
    /\ pc = "limiter"
    /\ req = [method |-> "GET", get |-> Undefined, endsSlash |-> FALSE,
              dl |-> FALSE, authenticate |-> Undefined,
              downloadManager |-> FALSE, basicAgent |-> FALSE]
    /\ ctx = InitCtx
    /\ node = NoNode
    /\ locks = << >>
    /\ stream = NoStream
    /\ del = InitDel
    /\ calls = << >>
    /\ trace = << >>
    /\ asap = IdleAsap
    /\ gen = IdleGen
    /\ net = IdleNet
    /\ fl = IdleList

\* the upstream writes a chunk and the stream passes it to transform: always
\* before this.end(), and after it for a chunk that was already buffered
LimiterWrite ==
    /\ lim.on
    /\ Len(lim.input) < MaxChunks
    /\ \A k \in 1..Len(lim.input) : lim.input[k].seen
    /\ \E n \in 0..MaxChunkLen :
          LET chunk == NextChunk(lim, n)
          IN  lim' = [transform(lim, chunk) EXCEPT
                        !.input = Append(lim.input,
                                         [chunk |-> chunk, seen |-> TRUE])]
    /\ UNCHANGED << routerVars, others >>

\* the upstream writes a chunk after this.end(): the stream refuses it
\* (write after end) and transform does not see it
LimiterWriteAfterEnd ==
    /\ lim.on
    /\ lim.ended > 0
    /\ Len(lim.input) < MaxChunks
    /\ \E n \in 0..MaxChunkLen :
          lim' = [lim EXCEPT !.input = Append(lim.input,
                     [chunk |-> NextChunk(lim, n), seen |-> FALSE])]
    /\ UNCHANGED << routerVars, others >>

LimiterNext == LimiterWrite \/ LimiterWriteAfterEnd

LimiterSpec == LimiterInit /\ [][LimiterNext]_vars

(***************************************************************************)
(* The router at rest, for the specifications of the stream adapters.      *)
(***************************************************************************)
RouterIdle ==
    /\ pc = "idle"
    /\ req = [method |-> "GET", get |-> Undefined, endsSlash |-> FALSE,
              dl |-> FALSE, authenticate |-> Undefined,
              downloadManager |-> FALSE, basicAgent |-> FALSE]
    /\ ctx = InitCtx
    /\ node = NoNode
    /\ locks = << >>
    /\ stream = NoStream
    /\ del = InitDel
    /\ calls = << >>
    /\ trace = << >>

(***************************************************************************)
(* AsapStream (lines 285-298).  The reactions of the promises are jobs of  *)
(* the microtask queue, run first in, first out: a reaction registered on  *)
(* a settled promise is queued at once, one registered on a pending        *)
(* promise when the promise settles.                                       *)
(***************************************************************************)
\* the values a promise resolves with
PromiseValues == {Undefined, "null", "value"}

\* Readable.push(x) in object mode, for promise i (0: the push of line 296):
\* null signals the end of the stream, a value pushed after the end is
\* refused with an error
Push(a, x, i) ==
    IF x = "null"
    THEN IF a.ended THEN a
         ELSE [a EXCEPT !.ended = TRUE,
                        !.out = Append(@, [kind |-> "end", i |-> i])]
    ELSE IF a.ended
    THEN [a EXCEPT !.out = Append(@, [kind |-> "pushAfterEOF", i |-> i])]
    ELSE [a EXCEPT !.out = Append(@, [kind |-> "data", i |-> i])]

\* lines 294-295: the reactions `x => x !== undefined && this.push(x)` and
\* `e => this.emit('error', e)` of promise i
thenHandler(a, i) ==
    LET p == a.promises[i]
    IN  IF p.state = "resolved"
        THEN IF p.val # Undefined THEN Push(a, p.val, i) ELSE a
        ELSE [a EXCEPT !.out = Append(@, [kind |-> "error", i |-> i])]

\* Promise.allSettled resolving with the first promise that settles
allSettled_Race(a, i) ==
    [a EXCEPT !.count = @ + 1,
              !.jobs = IF a.count = 0
                       THEN Append(@, [kind |-> "end", i |-> 0]) ELSE @]

\* line 296: Promise.allSettled sees promise i settle; when it has seen all
\* of them its promise resolves and the reaction `() => this.push(null)` is
\* queued
allSettled(a, i) ==
    [a EXCEPT !.count = @ + 1,
              !.jobs = IF a.count + 1 = Len(a.promises)
                       THEN Append(@, [kind |-> "end", i |-> 0]) ELSE @]

\* the reactions of the given kind queued when they are registered: those of
\* the promises that have settled, in the order of the array
Reactions(a, kind) ==
    LET settled == SelectSeq([i \in 1..Len(a.promises) |-> i],
                             LAMBDA i : a.promises[i].state # "pending")
    IN  [k \in 1..Len(settled) |-> [kind |-> kind, i |-> settled[k]]]

\* lines 293-296: the reactions are registered
Register(a) ==
    [a EXCEPT !.jobs = @ \o Reactions(a, "then") \o Reactions(a, "allSettled")
                         \o IF Len(a.promises) = 0
                            THEN << [kind |-> "end", i |-> 0] >> ELSE << >>,
              !.early = Len(a.order)]

\* lines 287-289: an AsapStream is constructed on n pending promises
AsapInit ==
    /\ \E n \in 0..MaxPromises :
          asap = [IdleAsap EXCEPT !.on = TRUE,
                                  !.promises = [i \in 1..n |-> PendingPromise]]
    /\ RouterIdle
    /\ lim = IdleLim
    /\ gen = IdleGen
    /\ net = IdleNet
    /\ fl = IdleList

\* a promise settles: resolved with a value, or rejected
AsapSettle ==
    /\ asap.on
    /\ \E i \in 1..Len(asap.promises) :
          /\ asap.promises[i].state = "pending"
          /\ \E p \in [state : {"resolved"}, val : PromiseValues]
                       \cup {[state |-> "rejected", val |-> Undefined]} :
                asap' = [asap EXCEPT
                    !.promises[i] = p,
                    !.order = Append(@, i),
                    !.jobs = IF asap.finished
                             THEN @ \o << [kind |-> "then", i |-> i],
                                          [kind |-> "allSettled", i |-> i] >>
                             ELSE @]
    /\ UNCHANGED << routerVars, lim, gen, net, fl >>

\* _read registering the reactions at every call
AsapRead_EveryRead ==
    /\ asap.on
    /\ asap.reads < MaxReads
    /\ asap' = [Register(asap) EXCEPT !.reads = @ + 1, !.finished = TRUE]
    /\ UNCHANGED << routerVars, lim, gen, net, fl >>

\* lines 290-297: _read()
AsapRead ==
    /\ asap.on
    /\ asap.reads < MaxReads
    /\ IF asap.finished
       THEN asap' = [asap EXCEPT !.reads = @ + 1]
       ELSE asap' = [Register(asap) EXCEPT !.reads = @ + 1, !.finished = TRUE]
    /\ UNCHANGED << routerVars, lim, gen, net, fl >>

\* the event loop runs the first job of the microtask queue
AsapRunJob ==
    /\ asap.on
    /\ asap.jobs # << >>
    /\ LET job == Head(asap.jobs)
           a == [asap EXCEPT !.jobs = Tail(@)]
       IN  asap' = CASE job.kind = "then" -> thenHandler(a, job.i)
                     [] job.kind = "allSettled" -> allSettled(a, job.i)
                     [] OTHER -> Push(a, "null", 0)
    /\ UNCHANGED << routerVars, lim, gen, net, fl >>

AsapNext == AsapSettle \/ AsapRead \/ AsapRunJob

AsapSpec == AsapInit /\ [][AsapNext]_vars

(***************************************************************************)
(* asyncGeneratorToReadable (lines 267-282).  The stream calls read() when *)
(* the consumer demands data and no read is outstanding, and never once    *)
(* the end was signalled or the stream destroyed.  An async generator      *)
(* serves its requests in order: a return() called while a next() is       *)
(* pending is processed when that next() has settled.                      *)
(***************************************************************************)
\* lines 267-270: a stream is made of a generator of n items
GenInit ==
    /\ \E n \in 0..MaxItems : gen = [IdleGen EXCEPT !.on = TRUE, !.items = n]
    /\ RouterIdle
    /\ lim = IdleLim
    /\ asap = IdleAsap
    /\ net = IdleNet
    /\ fl = IdleList

\* lines 274-275: read() calls iterator.next()
GenRead ==
    /\ gen.on
    /\ ~gen.reading /\ ~gen.ended /\ ~gen.destroyed
    /\ gen' = [gen EXCEPT !.reading = TRUE, !.pending = TRUE,
                          !.events = @ \o << "read", "next" >>]
    /\ UNCHANGED << routerVars, lim, asap, net, fl >>

\* lines 275-279: the reaction to the result of next(): 'ending' and
\* push(null) when it is done, push(it.value) otherwise (a destroyed stream
\* drops what is pushed)
onNext(g, done) ==
    IF done
    THEN [g EXCEPT !.reading = FALSE,
                   !.ended = TRUE,
                   !.events = @ \o << "ending" >>
                                \o IF g.ended THEN << >> ELSE << "end" >>]
    ELSE [g EXCEPT !.reading = FALSE,
                   !.events = Append(@, IF g.destroyed THEN "dropped"
                                        ELSE "push")]

\* the pending next() resolves: with the next item, or done; a return()
\* that waited for it is processed
GenNextSettles ==
    /\ gen.on
    /\ gen.pending
    /\ LET done == gen.items = 0
           g == [gen EXCEPT !.pending = FALSE,
                            !.items = IF done THEN 0 ELSE @ - 1,
                            !.released = gen.destroyed]
       IN  gen' = onNext(g, done)
    /\ UNCHANGED << routerVars, lim, asap, net, fl >>

\* the generator throws: the pending next() is rejected, and line 275
\* registers no reaction to a rejection
GenNextRejects ==
    /\ gen.on
    /\ gen.pending /\ gen.items > 0
    /\ gen' = [gen EXCEPT !.pending = FALSE, !.items = 0,
                          !.released = gen.destroyed,
                          !.events = Append(@, "rejected")]
    /\ UNCHANGED << routerVars, lim, asap, net, fl >>

\* destroy() leaving the iterator alone
GenDestroy_NoReturn ==
    /\ gen.on
    /\ ~gen.destroyed
    /\ gen' = [gen EXCEPT !.destroyed = TRUE,
                          !.events = @ \o << "destroy" >>]
    /\ UNCHANGED << routerVars, lim, asap, net, fl >>

\* lines 271-273: the stream is destroyed (by the consumer, or by the
\* stream itself after its end): destroy() calls iterator.return()
GenDestroy ==
    /\ gen.on
    /\ ~gen.destroyed
    /\ gen' = [gen EXCEPT !.destroyed = TRUE,
                          !.released = ~gen.pending,
                          !.events = @ \o << "destroy", "return" >>]
    /\ UNCHANGED << routerVars, lim, asap, net, fl >>

GenNext == GenRead \/ GenNextSettles \/ GenNextRejects \/ GenDestroy

GenSpec == GenInit /\ [][GenNext]_vars

(***************************************************************************)
(* netMatches and makeNetMatcher (lines 215-261).  A text is a sequence of *)
(* tokens; an IPv4 address is a number of AddrBits bits, and ::1 is the    *)
(* one IPv6 address.                                                       *)
(***************************************************************************)
V4 == 0..(2^AddrBits - 1)

\* ::1
V6Loopback == 2^AddrBits

\* 127.0.0.1, in the lower half of the IPv4 addresses
Loopback == 2^(AddrBits - 1) - 1

Family(a) == IF a \in V4 THEN 4 ELSE 6

Tok(t, v) == [t |-> t, v |-> v]
Bang == Tok("!", 0)
Bar == Tok("|", 0)
Sp == Tok(" ", 0)
Slash == Tok("/", 0)
Dash == Tok("-", 0)
\* the word localhost
Localhost == Tok("localhost", 0)
\* a text with a character that is none of . : 0-9 a-f, as "foo"
Junk == Tok("junk", 0)
\* a text of the characters . : 0-9 a-f that is no address, as "1.2.3"
BadAddr == Tok("badaddr", 0)
\* the text of an address
Addr(a) == Tok("addr", a)
\* a decimal number
Num(n) == Tok("num", n)

\* mask.replaceAll(' ', '')
RemoveSpaces(text) == SelectSeq(text, LAMBDA t : t # Sp)

\* mask.replace('localhost', '::1|127.0.0.1'): the first occurrence only
ReplaceLocalhost(text) ==
    LET at == { k \in 1..Len(text) : text[k] = Localhost }
    IN  IF at = {} THEN text
        ELSE LET k == CHOOSE k \in at : \A j \in at : k <= j
             IN  SubSeq(text, 1, k - 1)
                 \o << Addr(V6Loopback), Bar, Addr(Loopback) >>
                 \o SubSeq(text, k + 1, Len(text))

\* mask.split('|')
RECURSIVE Split(_)
Split(text) ==
    LET at == { k \in 1..Len(text) : text[k] = Bar }
    IN  IF at = {} THEN << text >>
        ELSE LET k == CHOOSE k \in at : \A j \in at : k <= j
             IN  << SubSeq(text, 1, k - 1) >>
                 \o Split(SubSeq(text, k + 1, Len(text)))

\* line 232: /^([.:\da-f]+)(?:\/(\d+)|-(.+)|)$/i.exec(x); m1 is the text of
\* group 1 as one token, has2 and has3 tell whether groups 2 and 3 took part
NoMatch == [ok |-> FALSE, m1 |-> Junk, has2 |-> FALSE, m2 |-> 0, has3 |-> FALSE]

RegexExec(x) ==
    LET AddrLike(t) == t.t \in {"addr", "badaddr", "num"}
        rest == { k \in 1..Len(x) : ~AddrLike(x[k]) }
        n == IF rest = {} THEN Len(x)
             ELSE (CHOOSE k \in rest : \A j \in rest : k <= j) - 1
        m1 == IF n = 1 THEN x[1] ELSE BadAddr
    IN  IF n = 0 THEN NoMatch
        ELSE IF n = Len(x)
        THEN [ok |-> TRUE, m1 |-> m1, has2 |-> FALSE, m2 |-> 0, has3 |-> FALSE]
        ELSE IF x[n + 1] = Slash /\ Len(x) = n + 2 /\ x[n + 2].t = "num"
        THEN [ok |-> TRUE, m1 |-> m1, has2 |-> TRUE, m2 |-> x[n + 2].v,
              has3 |-> FALSE]
        ELSE IF x[n + 1] = Dash /\ Len(x) > n + 1
        THEN [ok |-> TRUE, m1 |-> m1, has2 |-> FALSE, m2 |-> 0, has3 |-> TRUE]
        ELSE NoMatch

\* lines 259-261: parseAddress(s): the address, or ERR_INVALID_ADDRESS thrown
parseAddress(s) ==
    IF s.t = "addr" THEN [ok |-> TRUE, a |-> s.v] ELSE [ok |-> FALSE, a |-> 0]

\* parseAddress(undefined): SocketAddress is given no address; it takes its
\* default, 127.0.0.1, or throws, as the runtime has it (undef)
parseUndefined(undef) ==
    IF undef = "default" THEN [ok |-> TRUE, a |-> Loopback]
    ELSE [ok |-> FALSE, a |-> 0]

\* the rules of a BlockList: an address, a subnet (n: bits), a range (n: end)
Rule(kind, a, n) == [kind |-> kind, a |-> a, n |-> n]

\* BlockList.addSubnet throws for a prefix longer than the address
SubnetOk(a, bits) == Family(a) = 6 \/ bits <= AddrBits

\* BlockList.addRange throws unless start comes before or is end
RangeOk(a, end) == Family(a) = Family(end) /\ a <= end

\* does the rule hold the address x
Holds(rule, x) ==
    CASE rule.kind = "addr" -> x = rule.a
      [] rule.kind = "subnet" ->
            /\ Family(x) = Family(rule.a)
            /\ \/ Family(x) = 6
               \/ x \div 2^(AddrBits - rule.n) = rule.a \div 2^(AddrBits - rule.n)
      [] OTHER -> rule.a <= x /\ x <= rule.n

\* BlockList.check(address)
BlockListCheck(rules, x) == \E k \in 1..Len(rules) : Holds(rules[k], x)

\* a compiled matcher: the constant of an empty mask, the text matcher of
\* ./cross for a mask without '/', or a BlockList with the negation flag
Matcher(kind, val, text, neg, rules) ==
    [kind |-> kind, val |-> val, text |-> text, neg |-> neg, rules |-> rules]

\* a leading '!' taken for a second, separate part
Negated_FirstPart(all) == Len(all) > 1 /\ all[1] = << Bang >>

\* line 227: all[0]?.[0] === '!'
Negated(all) == all[1] # << >> /\ all[1][1] = Bang

\* lines 231-248: the parts are added to the BlockList; a part that does
\* not parse, and one that addSubnet or addRange refuses, is skipped
RECURSIVE AddParts(_, _, _)
AddParts(all, rules, undef) ==
    IF all = << >> THEN rules
    ELSE LET m == RegexExec(Head(all))
             address == parseAddress(m.m1)
             end == parseUndefined(undef)
             added ==
                 IF ~m.ok \/ ~address.ok THEN rules
                 ELSE IF m.has2
                 THEN IF SubnetOk(address.a, m.m2)
                      THEN Append(rules, Rule("subnet", address.a, m.m2))
                      ELSE rules
                 ELSE IF m.has3
                 THEN IF end.ok /\ RangeOk(address.a, end.a)
                      THEN Append(rules, Rule("range", address.a, end.a))
                      ELSE rules
                 ELSE Append(rules, Rule("addr", address.a, 0))
         IN  AddParts(Tail(all), added, undef)

\* lines 219-256: makeNetMatcher(mask, emptyMaskReturns)
makeNetMatcher(mask, emptyMaskReturns, undef) ==
    IF mask = << >>
    THEN Matcher("const", emptyMaskReturns, << >>, FALSE, << >>)
    ELSE LET text == ReplaceLocalhost(RemoveSpaces(mask))
             all == Split(text)
             neg == Negated(all)
         IN  IF \A k \in 1..Len(text) : text[k] # Slash
             THEN Matcher("text", FALSE, text, FALSE, << >>)
             ELSE Matcher("blocklist", FALSE, << >>, neg,
                          AddParts(IF neg THEN << Tail(all[1]) >> \o Tail(all)
                                   ELSE all,
                                   << >>, undef))

\* makeMatcher of ./cross: a matcher of the literal text, of parts separated
\* by '|', negated by a leading '!'
makeMatcher(text, ip) ==
    LET neg == text # << >> /\ text[1] = Bang
        parts == Split(IF neg THEN Tail(text) ELSE text)
    IN  neg # (\E k \in 1..Len(parts) : parts[k] = << ip >>)

\* lines 249-255 (and 221, 225): the compiled matcher applied to ip
Apply(matcher, ip) ==
    CASE matcher.kind = "const" -> matcher.val
      [] matcher.kind = "text" -> makeMatcher(matcher.text, ip)
      [] OTHER ->
            LET address == parseAddress(ip)
            IN  IF address.ok
                THEN matcher.neg # BlockListCheck(matcher.rules, address.a)
                ELSE FALSE

\* the parts a mask is made of: a bare address, a text that is no address,
\* localhost, a subnet (its bits up to one too many), a range, and a subnet
\* written with a space
PartTexts ==
    { << Addr(a) >> : a \in V4 }
    \cup { << BadAddr >>, << Junk >>, << Localhost >>,
           << Addr(0), Sp, Slash, Num(AddrBits) >> }
    \cup { << Addr(a), Slash, Num(n) >> : a \in V4, n \in 0..(AddrBits + 1) }
    \cup { << Addr(a), Dash, Addr(b) >> : a \in V4, b \in V4 }

\* the masks: empty, of one part or of two, with or without a leading '!'
MaskBodies ==
    { << >> } \cup PartTexts
    \cup { p \o << Bar >> \o q : p \in PartTexts, q \in PartTexts }

Masks == MaskBodies \cup { << Bang >> \o m : m \in MaskBodies }

\* the ip strings: the addresses, and two texts that are no address
Ips == { Addr(a) : a \in V4 \cup {V6Loopback} } \cup { BadAddr, Junk }

\* line 217: the key of the cache, mask + (emptyMaskReturns ? '1' : '0')
CacheKey(mask, emptyMaskReturns) ==
    Append(mask, Num(IF emptyMaskReturns THEN 1 ELSE 0))

\* the masks netMatches is called with
CacheMasks ==
    { << >>, << Bang >>, << Num(1) >>, << Addr(0), Slash, Num(1) >>,
      << Bang, Addr(0), Slash, Num(1) >> }

MatcherInit ==
    /\ \E mask \in Masks :
          net = [IdleNet EXCEPT !.on = TRUE, !.stage = "mask", !.mask = mask]
    /\ RouterIdle
    /\ lim = IdleLim
    /\ asap = IdleAsap
    /\ gen = IdleGen
    /\ fl = IdleList

\* makeNetMatcher is called with the mask
MatcherCompile ==
    /\ net.on /\ net.stage = "mask"
    /\ \E e \in IF net.mask = << >> THEN BOOLEAN ELSE {FALSE},
          undef \in IF \E k \in 1..Len(net.mask) : net.mask[k] = Dash
                    THEN {"default", "throws"} ELSE {"default"} :
          net' = [net EXCEPT !.stage = "compiled", !.e = e, !.undef = undef,
                             !.matcher = makeNetMatcher(net.mask, e, undef)]
    /\ UNCHANGED << routerVars, lim, asap, gen, fl >>

\* the compiled matcher is called with an ip
MatcherApply ==
    /\ net.on /\ net.stage = "compiled"
    /\ \E ip \in Ips :
          net' = [net EXCEPT !.stage = "applied", !.ip = ip,
                             !.result = Apply(net.matcher, ip)]
    /\ UNCHANGED << routerVars, lim, asap, gen, fl >>

MatcherNext == MatcherCompile \/ MatcherApply

MatcherSpec == MatcherInit /\ [][MatcherNext]_vars

\* line 216: the cache is created empty
CacheInit ==
    /\ \E undef \in {"default", "throws"} :
          net = [IdleNet EXCEPT !.on = TRUE, !.stage = "cache", !.undef = undef]
    /\ RouterIdle
    /\ lim = IdleLim
    /\ asap = IdleAsap
    /\ gen = IdleGen
    /\ fl = IdleList

\* netMatches with the mask alone as the key of the cache
netMatches_KeyIsMask ==
    /\ net.on /\ net.stage = "cache"
    /\ net.calls < MaxCalls
    /\ \E ip \in Ips, mask \in CacheMasks, e \in BOOLEAN :
          LET key == mask
              cache == IF key \in DOMAIN net.cache THEN net.cache
                       ELSE (key :> makeNetMatcher(mask, e, net.undef))
                            @@ net.cache
          IN  net' = [net EXCEPT !.cache = cache, !.calls = @ + 1,
                                 !.mask = mask, !.e = e, !.ip = ip,
                                 !.matcher = cache[key],
                                 !.result = Apply(cache[key], ip)]
    /\ UNCHANGED << routerVars, lim, asap, gen, fl >>

\* lines 215-218: netMatches(ip, mask, emptyMaskReturns)
netMatches ==
    /\ net.on /\ net.stage = "cache"
    /\ net.calls < MaxCalls
    /\ \E ip \in Ips, mask \in CacheMasks, e \in BOOLEAN :
          LET key == CacheKey(mask, e)
              cache == IF key \in DOMAIN net.cache THEN net.cache
                       ELSE (key :> makeNetMatcher(mask, e, net.undef))
                            @@ net.cache
          IN  net' = [net EXCEPT !.cache = cache, !.calls = @ + 1,
                                 !.mask = mask, !.e = e, !.ip = ip,
                                 !.matcher = cache[key],
                                 !.result = Apply(cache[key], ip)]
    /\ UNCHANGED << routerVars, lim, asap, gen, fl >>

CacheSpec == CacheInit /\ [][netMatches]_vars

(***************************************************************************)
(* sendFolderList (lines 152-169).  The body is the stream of the lines    *)
(* that filterMapGenerator yields for the entries of walkNode.             *)
(***************************************************************************)
\* the names of the entries
Names == {"a.txt", "b", "c d"}

\* ctx.query.folders
FoldersValues == {Undefined, "", "1"}

\* ctx.query.prepend
PrependValues == {Undefined, "*", "", "http://cdn/"}

\* pathEncode of ./misc: percent-encoding of a name
pathEncode(name) == IF name = "c d" THEN "c%20d" ELSE name

\* lines 157-162: the prepend in effect: the one of the query, or the
\* configured base url (the request's origin when it is not configured, or
\* when prepend is '*') with the encoded path of the request
EffectivePrepend(prepend, base) ==
    IF prepend = Undefined \/ prepend = "*"
    THEN (IF prepend = Undefined /\ base # "" THEN base ELSE "http://host")
         \o "/dir/"
    ELSE prepend

\* the mapping emitting directories whatever the query asks
MapEntry_KeepFolders(el, folders, prepend) ==
    [skip |-> FALSE,
     line |-> prepend \o pathEncode(el.name)
                      \o (IF el.dir THEN "/" ELSE "") \o "\n"]

\* lines 164-168: the mapping of an entry to its line; undefined (skip) for
\* a directory unless the query's folders is truthy
MapEntry(el, folders, prepend) ==
    IF ~Truthy(folders) /\ el.dir
    THEN [skip |-> TRUE, line |-> ""]
    ELSE [skip |-> FALSE,
          line |-> prepend \o pathEncode(el.name)
                           \o (IF el.dir THEN "/" ELSE "") \o "\n"]

\* the walks: up to MaxEntries entries, files and directories
Walks ==
    UNION { [1..n -> [name : Names, dir : BOOLEAN]] : n \in 0..MaxEntries }

ListInit ==
    /\ \E walk \in Walks :
          fl = [IdleList EXCEPT !.on = TRUE, !.stage = "hook", !.walk = walk]
    /\ RouterIdle
    /\ lim = IdleLim
    /\ asap = IdleAsap
    /\ gen = IdleGen
    /\ net = IdleNet

\* lines 153-154: the 'getList' hook; a listener may veto the listing
sendFolderList_getList ==
    /\ fl.on /\ fl.stage = "hook"
    /\ \E vetoed \in BOOLEAN :
          fl' = [fl EXCEPT !.vetoed = vetoed,
                           !.stage = IF vetoed THEN "done" ELSE "query"]
    /\ UNCHANGED << routerVars, lim, asap, gen, net >>

\* lines 155-168: the query is read, ctx.type and ctx.body are set
sendFolderList ==
    /\ fl.on /\ fl.stage = "query"
    /\ \E folders \in FoldersValues, prepend \in PrependValues,
          base \in {"", "http://base"} :
          fl' = [fl EXCEPT !.folders = folders,
                           !.prepend = EffectivePrepend(prepend, base),
                           !.type = "text", !.body = "stream",
                           !.stage = "streaming"]
    /\ UNCHANGED << routerVars, lim, asap, gen, net >>

\* filterMapGenerator of ./misc: the next entry after pos whose mapping is
\* not undefined (0: the walk is exhausted)
filterMapGenerator(walk, pos, folders, prepend) ==
    LET kept == { k \in (pos + 1)..Len(walk) :
                    ~MapEntry(walk[k], folders, prepend).skip }
    IN  IF kept = {} THEN 0 ELSE CHOOSE k \in kept : \A j \in kept : k <= j

\* the consumer reads the body (asyncGeneratorToReadable, line 164): the
\* next line of the generator is pushed, or the stream ends with the walk
ListRead ==
    /\ fl.on /\ fl.stage = "streaming" /\ ~fl.ended
    /\ LET k == filterMapGenerator(fl.walk, fl.pos, fl.folders, fl.prepend)
       IN  IF k = 0
           THEN fl' = [fl EXCEPT !.pos = Len(fl.walk), !.ended = TRUE]
           ELSE fl' = [fl EXCEPT
                        !.pos = k,
                        !.out = Append(@, MapEntry(fl.walk[k], fl.folders,
                                                   fl.prepend).line)]
    /\ UNCHANGED << routerVars, lim, asap, gen, net >>

ListNext == sendFolderList_getList \/ sendFolderList \/ ListRead

ListSpec == ListInit /\ [][ListNext]_vars

\* the router's own steps
RouterStep ==
    \/ DevAssetRule
    \/ FrontendRule
    \/ AdminRootRule
    \/ AdminRule
    \/ IconRule
    \/ WebdavRule
    \/ PutRule
    \/ PutResume
    \/ FaviconRule
    \/ ResolveRule
    \/ PostRule
    \/ PostResume
    \/ DeleteRule
    \/ deleteNode
    \/ deleteNode_deleting
    \/ deleteNode_rm
    \/ DeleteResult
    \/ DefaultDocRule
    \/ GetIconRule
    \/ NonDirRule
    \/ SlashRule
    \/ ListPermRule
    \/ TerminalRule

\* the steps of the environment: the upload sink, the body stream, the
\* multipart parser
EnvStep ==
    \/ PutStreamError
    \/ LockSettle
    \/ fileWriteStreamHandler
    \/ PostParsed

Next == RouterStep \/ EnvStep

Spec == Init /\ [][Next]_vars

\* the event loop runs a handler's continuation once what it awaits has
\* settled; the sink, the streams and the parser owe nothing
FairSpec == Spec /\ WF_vars(RouterStep)


(***************************************************************************)
(* What the claims read from the history.                                  *)
(***************************************************************************)
Called(fn) == \E k \in 1..Len(calls) : calls[k].fn = fn

\* the argument of the first call of fn
ArgOf(fn) == calls[CHOOSE k \in 1..Len(calls) :
                     /\ calls[k].fn = fn
                     /\ \A j \in 1..(k - 1) : calls[j].fn # fn].arg

\* the names of the collaborators rule r invoked, in order
CallsOfRule(r) ==
    LET own == SelectSeq(calls, LAMBDA c : c.rule = r)
    IN  [k \in 1..Len(own) |-> own[k].fn]

Hit(r) == \E i \in 1..Len(trace) : trace[i].rule = r /\ trace[i].hit

AllResolved == \A i \in 1..Len(locks) : locks[i].state = "resolved"
AllSettled == \A i \in 1..Len(locks) : locks[i].state # "pending"

(***************************************************************************)
(* C1  PUT: the body {uri} is present only once the sink's lock token has  *)
(* resolved, and uri is the value the token resolved to; while the token   *)
(* is pending there is no JSON body.                                       *)
(***************************************************************************)
C1_UriOnlyAfterLock ==
    /\ (Hit("put") /\ ctx.body.kind = "uri") =>
          /\ Len(locks) = 1
          /\ locks[1].state = "resolved"
          /\ ctx.body.uri = locks[1].value
    /\ (Hit("put") /\ pc = "done" /\ Len(locks) = 1 /\ stream.state = "open") =>
          ctx.body.kind = "uri"

\* a PUT answered with the URI the sink renamed the upload to
C1_Witness ==
    /\ Hit("put") /\ pc = "done"
    /\ ctx.body.kind = "uri" /\ ctx.body.uri = [name |-> 1, n |-> 1]
    /\ ctx.status = HTTP_OK

(***************************************************************************)
(* C2  PUT: when the piped body stream emitted an error, the finished      *)
(* response has status 500 and the error's message as its body, whenever   *)
(* the lock token resolves.  (Violated: the body {uri} set after the await *)
(* replaces the message.)                                                  *)
(***************************************************************************)
C2_ErrorResponseKept ==
    (pc = "done" /\ stream.state = "error") =>
        /\ ctx.status = HTTP_SERVER_ERROR
        /\ ctx.body = TextBody(stream.message)

AcceptedFields ==
    LET acc == SelectSeq(calls, LAMBDA c : c.fn = "uploadWriter accepted")
    IN  [k \in 1..Len(acc) |-> acc[k].arg]

C3_Safety ==
    /\ (Hit("post") /\ ctx.body.kind = "uris") =>
          /\ stream.state = "parsed"
          /\ AllResolved
          /\ Len(ctx.body.uris) = Len(AcceptedFields)
          /\ \A k \in 1..Len(ctx.body.uris) :
                /\ ctx.body.uris[k].name = AcceptedFields[k]
                /\ ctx.body.uris[k] = locks[k].value
    /\ (Hit("post") /\ pc = "thrown") =>
          /\ ctx.body.kind # "uris"
          /\ \E i \in 1..Len(locks) : locks[i].state = "rejected"

AllRules == { RuleOrder[i] : i \in 1..Len(RuleOrder) }

\* collaborators a rule asks in order to evaluate its guard
GuardFns == { "handledWebdav", "urlToNode", "detectBasicAgent", "console.error",
              "statusCodeForMissingPerm can_delete",
              "statusCodeForMissingPerm can_read",
              "statusCodeForMissingPerm can_list" }

\* the rules are evaluated in the fixed order; once a rule of S has matched
\* no later rule is evaluated and no collaborator of a later rule invoked;
\* what is done for the response is done by the rule of S that matched, and
\* the handler ends only after a rule of S has matched
FirstMatchDecides(S) ==
    LET hits == { i \in 1..Len(trace) : trace[i].hit /\ trace[i].rule \in S }
    IN  /\ \A i, j \in 1..Len(trace) :
              i < j => RuleIdx(trace[i].rule) < RuleIdx(trace[j].rule)
        /\ Cardinality(hits) <= 1
        /\ \A i \in hits :
              /\ i = Len(trace)
              /\ \A k \in 1..Len(calls) :
                    RuleIdx(calls[k].rule) <= RuleIdx(trace[i].rule)
        /\ \A k \in 1..Len(calls) :
              /\ \E i \in 1..Len(trace) : trace[i].rule = calls[k].rule
              /\ calls[k].fn \notin GuardFns =>
                    \E i \in hits : trace[i].rule = calls[k].rule
        /\ pc \in {"done", "thrown"} => hits # {}

(* C4, as claimed: every rule of the list, the default document included,  *)
(* ends the routing when its guard matches.                                *)
C4_FirstMatchOfAllRules == FirstMatchDecides(AllRules)

(* C4, as amended: the default-document rule is the one rule that does not *)
(* end the routing: when it matches it substitutes the node and the later  *)
(* rules are evaluated on the substituted node; every other rule ends the  *)
(* routing when it matches.                                                *)
C4_FirstMatchOfTerminalRules ==
    /\ FirstMatchDecides(AllRules \ {"defaultDoc"})
    /\ \A i \in 1..Len(trace) :
          (trace[i].rule = "defaultDoc" /\ trace[i].hit /\ i = Len(trace)) =>
              /\ pc = "getIcon"
              /\ CallsOfRule("defaultDoc") = << "urlToNode" >>

\* the default document was substituted and then served as a file
C4_Witness ==
    /\ pc = "done" /\ Hit("defaultDoc") /\ Called("serveFileNode")
    /\ ctx.considerAsGui

(***************************************************************************)
(* C5  DELETE: when a listener vetoes the 'deleting' hook nothing is       *)
(* removed and the status stays what it was; the router sets 200 only when *)
(* the removal was carried out.  (Violated: the veto and the removal both  *)
(* return 0, and the router answers 0 with 200.)                           *)
(***************************************************************************)
C5_VetoKeepsStatus ==
    (pc = "done" /\ del.res.kind # "none") =>
        /\ del.hook = "vetoed" => (~del.removed /\ ctx.status = del.before)
        /\ ctx.status = HTTP_OK => del.removed

(***************************************************************************)
(* C6  deleteNode: rm and the clearing of the comment happen only for a    *)
(* node with a source, a permitted caller and a hook that was not vetoed;  *)
(* a node without source yields 405 and the permission is not even asked;  *)
(* a denied permission yields the permission's status; in both cases       *)
(* neither the hook nor rm is invoked.                                     *)
(***************************************************************************)
C6_DeleteGuards ==
    /\ (Called("rm") \/ Called("setCommentFor") \/ del.removed \/ del.cleared) =>
          /\ node.source
          /\ Called("statusCodeForMissingPerm can_delete")
          /\ ArgOf("statusCodeForMissingPerm can_delete") = 0
          /\ del.hook = "passed"
    /\ (del.res.kind # "none" /\ ~node.source) =>
          /\ ctx.status = HTTP_METHOD_NOT_ALLOWED
          /\ del.res = NumRes(HTTP_METHOD_NOT_ALLOWED)
          /\ CallsOfRule("delete") = << "deleteNode" >>
    /\ (del.res.kind # "none" /\ Called("statusCodeForMissingPerm can_delete")
          /\ ArgOf("statusCodeForMissingPerm can_delete") # 0) =>
          /\ ctx.status = ArgOf("statusCodeForMissingPerm can_delete")
          /\ del.res = NumRes(ArgOf("statusCodeForMissingPerm can_delete"))
          /\ CallsOfRule("delete") =
                << "deleteNode", "statusCodeForMissingPerm can_delete" >>
          /\ ~del.removed

\* DELETE of a node with a source, denied with 403: status 403, nothing removed
C6_Witness ==
    /\ pc = "done" /\ del.res = NumRes(HTTP_FORBIDDEN)
    /\ node.source /\ ctx.status = HTTP_FORBIDDEN /\ ~del.removed

(***************************************************************************)
(* C7  deleteNode returns what its hook or rm throws as an Error value and *)
(* never raises it; the router answers an Error with 500, and a successful *)
(* removal with 200.                                                       *)
(***************************************************************************)
\* the hook or rm threw
DeleteFailed ==
    \/ del.hook = "threw"
    \/ del.res.kind # "none" /\ Called("rm") /\ ~del.removed

\* emptyAs: the body the router answers an Error of empty message with; an
\* Error of another message is answered with the message
DeleteErrors(emptyAs) ==
    /\ Hit("delete") => pc # "thrown"
    /\ DeleteFailed => del.res.kind = "error"
    /\ (pc = "done" /\ del.res.kind = "error") =>
          /\ DeleteFailed
          /\ ctx.status = HTTP_SERVER_ERROR
          /\ ctx.body = TextBody(IF del.res.message = "" THEN emptyAs
                                  ELSE del.res.message)
    /\ (pc = "done" /\ del.removed) =>
          /\ ctx.status = HTTP_OK
          /\ node.source
          /\ ArgOf("statusCodeForMissingPerm can_delete") = 0

(* C7, as claimed: the body of the 500 is the error's message.             *)
C7_BodyIsMessage == DeleteErrors("")

(* C7, as amended: the body of the 500 is the error's message when that is *)
(* not empty, and the error's string form ("Error" for a plain Error)      *)
(* when the message is empty.                                              *)
C7_BodyIsMessageOrString == DeleteErrors("Error")

\* rm failed with EPERM and the router answered 500 "EPERM"
C7_Witness ==
    /\ pc = "done" /\ Called("rm") /\ ~del.removed
    /\ del.res = ErrorRes("EPERM")
    /\ ctx.status = HTTP_SERVER_ERROR /\ ctx.body = TextBody("EPERM")

(***************************************************************************)
(* C8  a node that is no directory: redirect for a url; else 405 without   *)
(* source; else the file when can_read permits; else nothing for a denial  *)
(* other than 401; else the Basic challenge with the error page for a      *)
(* basic-auth agent; else the application shell (serveApp set) exactly     *)
(* when query.dl is absent, and neither shell nor challenge with dl.       *)
(***************************************************************************)
C8_NonDirOutcome ==
    (pc = "done" /\ Hit("nonDir")) =>
        LET did == CallsOfRule("nonDir")
            read == "statusCodeForMissingPerm can_read"
            p == ArgOf(read)
        IN  IF node.url
            THEN did = << "redirect" >> /\ ctx.auth = Undefined /\ ~ctx.serveApp
            ELSE IF ~node.source
            THEN /\ did = << "sendErrorPage" >>
                 /\ ctx.status = HTTP_METHOD_NOT_ALLOWED
                 /\ ctx.auth = Undefined /\ ~ctx.serveApp
            ELSE /\ Called(read)
                 /\ IF p = 0
                    THEN /\ did = << read, "serveFileNode" >>
                         /\ ctx.auth = Undefined /\ ~ctx.serveApp
                    ELSE IF p # HTTP_UNAUTHORIZED
                    THEN /\ did = << read >>
                         /\ ctx.status = p
                         /\ ctx.auth = Undefined /\ ~ctx.serveApp
                    ELSE IF req.basicAgent
                    THEN /\ did = << read, "detectBasicAgent", "sendErrorPage" >>
                         /\ ctx.auth = "Basic" /\ ~ctx.serveApp
                         /\ ctx.status = HTTP_UNAUTHORIZED
                    ELSE /\ ctx.auth = Undefined
                         /\ ctx.serveApp <=> ~req.dl
                         /\ did = IF req.dl
                                  THEN << read, "detectBasicAgent" >>
                                  ELSE << read, "detectBasicAgent",
                                          "serveFrontendFiles" >>

\* a 401 for a browser that asked for a download: neither shell nor challenge
C8_Witness ==
    /\ pc = "done" /\ Hit("nonDir")
    /\ ctx.status = HTTP_UNAUTHORIZED /\ ~req.basicAgent /\ req.dl
    /\ ~ctx.serveApp /\ ctx.auth = Undefined

(***************************************************************************)
(* C9  a directory whose listing is denied: the 403 page for a 403; else   *)
(* either the WWW-Authenticate challenge or the application shell, never   *)
(* both.                                                                   *)
(***************************************************************************)
\* emptyAsks: an authenticate parameter without a value asks for the
\* challenge as one with a value does; alwaysBasic: the header's value is
\* 'Basic' whatever the parameter's value
ListDenied(emptyAsks, alwaysBasic) ==
    (pc = "done" /\ Hit("listPerm")) =>
        LET did == CallsOfRule("listPerm")
            list == "statusCodeForMissingPerm can_list"
            asks(a) == a # Undefined /\ (emptyAsks \/ a # "")
            value(a) == IF alwaysBasic \/ a \in {Undefined, ""} THEN "Basic"
                        ELSE a
            challenged == ctx.auth # Undefined
            shell == ctx.serveApp /\ Called("serveFrontendFiles")
        IN  /\ Called(list) /\ ArgOf(list) # 0
            /\ IF ArgOf(list) = HTTP_FORBIDDEN
               THEN /\ did = << list, "sendErrorPage" >>
                    /\ ctx.status = HTTP_FORBIDDEN
                    /\ ctx.body = PageBody(HTTP_FORBIDDEN)
                    /\ ~challenged /\ ~shell
               ELSE /\ challenged <=> \/ req.downloadManager
                                      \/ asks(req.authenticate)
                                      \/ req.basicAgent
                    /\ challenged => ctx.auth = value(req.authenticate)
                    /\ ~challenged => shell
                    /\ ~(challenged /\ shell)
                    /\ ~(challenged /\ ctx.serveApp)

RECURSIVE Flatten(_)
Flatten(chunks) ==
    IF chunks = << >> THEN << >>
    ELSE Head(chunks) \o Flatten(Tail(chunks))

\* the bytes written before the k-th chunk
BytesBefore(l, k) ==
    LET RECURSIVE Sum(_)
        Sum(j) == IF j = 0 THEN 0 ELSE Sum(j - 1) + Len(l.input[j].chunk)
    IN  Sum(k - 1)

Min(a, b) == IF a < b THEN a ELSE b

\* what is to be forwarded of the chunks written: of each chunk that starts
\* before the limit, its bytes up to the limit
Forwarded(l) ==
    LET RECURSIVE From(_)
        From(k) ==
            IF k > Len(l.input) THEN << >>
            ELSE IF BytesBefore(l, k) < l.limit
            THEN << SubSeq(l.input[k].chunk, 1,
                           Min(Len(l.input[k].chunk),
                               l.limit - BytesBefore(l, k))) >> \o From(k + 1)
            ELSE From(k + 1)
    IN  From(1)

C10_ForwardsPrefix ==
    lim.on =>
        /\ Len(Flatten(lim.out)) <= lim.limit
        /\ Flatten(lim.out) = [i \in 1..Min(lim.limit, InputBytes(lim)) |-> i]
        /\ lim.out = Forwarded(lim)

\* limit 10 fed chunks of 6, 6 and 1 bytes forwards 6 and 4 bytes
C10_Witness ==
    /\ lim.on /\ lim.limit = 10 /\ Len(lim.input) = 3
    /\ Len(lim.input[1].chunk) = 6 /\ Len(lim.input[2].chunk) = 6
    /\ Len(lim.input[3].chunk) = 1 /\ lim.input[3].seen
    /\ lim.out = << <<1, 2, 3, 4, 5, 6>>, <<7, 8, 9, 10>> >>

(***************************************************************************)
(* C11  the limiter ends its stream as soon as the limit is reached: once  *)
(* the chunks passed to transform sum up to the limit or more (with limit  *)
(* 0: with the first chunk) this.end() has been called, and it is called   *)
(* at most once.  (Violated: with limit 0 `left > 0` never holds, so       *)
(* this.end() is never called.)                                            *)
(***************************************************************************)
C11_EndsAtLimit ==
    lim.on =>
        /\ lim.ended <= 1
        /\ (Len(lim.input) > 0 /\ InputBytes(lim) >= lim.limit) => lim.ended = 1

(***************************************************************************)
(* What the claims read from an AsapStream.                                *)
(***************************************************************************)
\* the promises whose values the stream emitted, in the order of emission
Emitted ==
    LET data == SelectSeq(asap.out, LAMBDA e : e.kind = "data")
    IN  [k \in 1..Len(data) |-> data[k].i]

\* every reaction registered so far has run
AsapQuiet == asap.on /\ asap.finished /\ asap.jobs = << >>

\* the order in which the reactions of the promises run: the promises that
\* had settled when the reactions were registered in the order of the array,
\* then the others in the order in which they settled
ReactionOrder ==
    SelectSeq([i \in 1..Len(asap.promises) |-> i],
              LAMBDA i : \E k \in 1..asap.early : asap.order[k] = i)
    \o SubSeq(asap.order, asap.early + 1, Len(asap.order))

\* the promises of the sequence s that precede its first promise resolved
\* with null
BeforeNull(s) ==
    LET nulls == { k \in 1..Len(s) : asap.promises[s[k]].val = "null" }
    IN  IF nulls = {} THEN s
        ELSE SubSeq(s, 1, (CHOOSE k \in nulls : \A j \in nulls : k <= j) - 1)

\* no value is emitted for a rejected promise or an undefined result, and
\* none twice
EmitsOnlyValues ==
    /\ \A k \in 1..Len(Emitted) :
          /\ asap.promises[Emitted[k]].state = "resolved"
          /\ asap.promises[Emitted[k]].val # Undefined
    /\ \A j, k \in 1..Len(Emitted) : Emitted[j] = Emitted[k] => j = k

AsapAllSettled ==
    \A i \in 1..Len(asap.promises) : asap.promises[i].state # "pending"

\* the promises reported with an 'error' event, in the order of the events
Reported ==
    LET errors == SelectSeq(asap.out, LAMBDA e : e.kind = "error")
    IN  [k \in 1..Len(errors) |-> errors[k].i]

\* nothing is emitted after the end was signalled; an 'error' is emitted
\* for a rejected promise only and once; once the reactions have run every
\* rejection has been reported
EndIsLast ==
    /\ \A j, k \in 1..Len(asap.out) :
          (asap.out[j].kind = "end" /\ j < k) =>
              asap.out[k].kind \notin {"data", "end"}
    /\ \A k \in 1..Len(Reported) :
          asap.promises[Reported[k]].state = "rejected"
    /\ \A j, k \in 1..Len(Reported) : Reported[j] = Reported[k] => j = k
    /\ AsapQuiet =>
          \A i \in 1..Len(asap.promises) :
              asap.promises[i].state = "rejected" =>
                  \E k \in 1..Len(Reported) : Reported[k] = i

\* the end was signalled by a promise that resolved with null
EndedByNull ==
    \E k \in 1..Len(asap.out) :
        /\ asap.out[k].kind = "end" /\ asap.out[k].i > 0
        /\ asap.promises[asap.out[k].i] = [state |-> "resolved", val |-> "null"]

GenCount(e) == Cardinality({ k \in 1..Len(gen.events) : gen.events[k] = e })

C14_BridgeReleasesAndEnds ==
    gen.on =>
        /\ gen.destroyed =>
              /\ \E k \in 2..Len(gen.events) :
                    gen.events[k - 1] = "destroy" /\ gen.events[k] = "return"
              /\ ~gen.pending => gen.released
        /\ GenCount("return") = GenCount("destroy")
        /\ GenCount("destroy") = (IF gen.destroyed THEN 1 ELSE 0)
        /\ GenCount("ending") <= 1 /\ GenCount("end") <= 1
        /\ gen.ended = (GenCount("ending") = 1)
        /\ \A k \in 1..Len(gen.events) :
              /\ gen.events[k] = "end" => (k > 1 /\ gen.events[k - 1] = "ending")
              /\ gen.events[k] = "next" => (k > 1 /\ gen.events[k - 1] = "read")
              /\ gen.events[k] = "ending" => gen.items = 0
        /\ GenCount("next") = GenCount("read")
        /\ \A j, k \in 1..Len(gen.events) :
              (gen.events[j] \in {"end", "ending"} /\ j < k) =>
                  gen.events[k] \notin {"push", "next", "ending"}

\* the consumer destroys the stream while the second next() is pending: the
\* iterator's return() is called at once, and the item that arrives is dropped
C14_Witness ==
    /\ gen.on /\ gen.destroyed /\ gen.released
    /\ gen.events = << "read", "next", "push", "read", "next",
                       "destroy", "return", "dropped" >>

(***************************************************************************)
(* What the claims read from a matcher.                                    *)
(***************************************************************************)
\* the ip is the text of an address
WellFormed(ip) == ip.t = "addr"

\* the matcher was applied, and it is one compiled in address-aware mode
AppliedBlockList == net.stage = "applied" /\ net.matcher.kind = "blocklist"

\* what the matcher of "!" + mask answers for the ip of the last call
NegatedMaskResult ==
    Apply(makeNetMatcher(<< Bang >> \o net.mask, net.e, net.undef), net.ip)

Addresses == V4 \cup {V6Loopback}

\* the mask of the last call as makeNetMatcher reads it: without spaces,
\* localhost replaced
MaskText == ReplaceLocalhost(RemoveSpaces(net.mask))

\* the negation flag, and the parts without it
MaskNegated == MaskText # << >> /\ MaskText[1] = Bang

MaskParts == Split(IF MaskNegated THEN Tail(MaskText) ELSE MaskText)

\* a part of the form a-b with a <= b
IsRange(x) ==
    /\ Len(x) = 3 /\ x[1].t = "addr" /\ x[2] = Dash /\ x[3].t = "addr"
    /\ Family(x[1].v) = Family(x[3].v) /\ x[1].v <= x[3].v

\* the addresses of a part: a bare address is that address, a/bits the
\* addresses that share the first bits with a, a-b the addresses from a to
\* b, and a malformed part none
PartSet(x) ==
    IF Len(x) = 1 /\ x[1].t = "addr" THEN { x[1].v }
    ELSE IF Len(x) = 3 /\ x[1].t = "addr" /\ x[2] = Slash /\ x[3].t = "num"
            /\ (Family(x[1].v) = 6 \/ x[3].v <= AddrBits)
    THEN { y \in Addresses :
             /\ Family(y) = Family(x[1].v)
             /\ Family(y) = 4 =>
                   y \div 2^(AddrBits - x[3].v) = x[1].v \div 2^(AddrBits - x[3].v) }
    ELSE IF IsRange(x) THEN { y \in Addresses : x[1].v <= y /\ y <= x[3].v }
    ELSE {}

\* the addresses of the parts other than the k-th
OtherParts(k) ==
    UNION { PartSet(MaskParts[j]) : j \in (1..Len(MaskParts)) \ {k} }

(***************************************************************************)
(* C16  for a mask with a CIDR part and a well-formed ip, the matcher      *)
(* answers (the ip is in the union of the well-formed parts) XOR (the mask *)
(* is negated); malformed parts count for nothing.  (Violated by a mask    *)
(* that has a range part beside the CIDR part: the end of the range is not *)
(* read from the mask.)                                                    *)
(***************************************************************************)
C16_UnionOfParts ==
    (AppliedBlockList /\ WellFormed(net.ip)) =>
        net.result =
            (MaskNegated # (net.ip.v \in UNION { PartSet(MaskParts[k]) :
                                                  k \in 1..Len(MaskParts) }))

(***************************************************************************)
(* C17  in address-aware mode a part a-b is the inclusive range from a to  *)
(* b: without negation every address from a to b matches, both ends        *)
(* included, and an address outside it matches only if another part holds  *)
(* it.  (Violated: line 244 parses m[2], which is undefined for a range,   *)
(* instead of the end of the range m[3].)                                  *)
(***************************************************************************)
C17_RangeInclusive ==
    (AppliedBlockList /\ WellFormed(net.ip) /\ ~MaskNegated) =>
        \A k \in 1..Len(MaskParts) :
            IsRange(MaskParts[k]) =>
                /\ net.ip.v \in PartSet(MaskParts[k]) => net.result
                /\ (net.ip.v \notin PartSet(MaskParts[k])
                        /\ net.ip.v \notin OtherParts(k)) => ~net.result

(***************************************************************************)
(* C18  the cache of netMatches is transparent: every call answers what a  *)
(* freshly compiled makeNetMatcher(mask, emptyMaskReturns)(ip) answers;    *)
(* every entry of the cache is the matcher of exactly one pair (mask,      *)
(* emptyMaskReturns), there is at most one entry per call made, an entry   *)
(* is never replaced or removed, and the empty mask answers                *)
(* emptyMaskReturns for every ip.                                          *)
(***************************************************************************)
\* the pairs (mask, emptyMaskReturns) whose key is key
PairsOf(key) ==
    { pair \in CacheMasks \X BOOLEAN : CacheKey(pair[1], pair[2]) = key }

CacheTransparent ==
    net.stage = "cache" =>
        /\ net.calls > 0 =>
              /\ net.result =
                    Apply(makeNetMatcher(net.mask, net.e, net.undef), net.ip)
              /\ CacheKey(net.mask, net.e) \in DOMAIN net.cache
              /\ net.mask = << >> => net.result = net.e
        /\ \A key \in DOMAIN net.cache :
              /\ Cardinality(PairsOf(key)) = 1
              /\ \A pair \in PairsOf(key) :
                    net.cache[key] = makeNetMatcher(pair[1], pair[2], net.undef)
        /\ Cardinality(DOMAIN net.cache) <= net.calls

\* a step keeps every entry of the cache as it is
CacheKept ==
    \A key \in DOMAIN net.cache :
        key \in DOMAIN net'.cache /\ net'.cache[key] = net.cache[key]

C18_CacheIsTransparent == []CacheTransparent /\ [][CacheKept]_vars

\* the empty mask was asked with emptyMaskReturns false, then true, and then
\* true again, served from the cache: two entries, and the answer is true
C18_Witness ==
    /\ net.stage = "cache" /\ net.calls = 3
    /\ DOMAIN net.cache = { CacheKey(<< >>, FALSE), CacheKey(<< >>, TRUE) }
    /\ net.mask = << >> /\ net.e /\ net.result

(***************************************************************************)
(* C19  a listing that the 'getList' hook does not veto emits, in the      *)
(* order of the walk, one line for every walked entry that is a file, or a *)
(* directory when the query's folders has a value (is truthy): prepend,    *)
(* the encoded name, '/' for a directory, and a newline; without folders   *)
(* no directory is emitted; a vetoed listing sets no body.                 *)
(***************************************************************************)
\* the line of an entry
LineOf(el) ==
    fl.prepend \o pathEncode(el.name) \o (IF el.dir THEN "/" ELSE "") \o "\n"

\* the entries walked so far that are to be listed
Listed ==
    SelectSeq(SubSeq(fl.walk, 1, fl.pos),
              LAMBDA el : ~el.dir \/ Truthy(fl.folders))

C19_ListsWalkedEntries ==
    fl.on =>
        /\ fl.vetoed =>
              fl.body = "none" /\ fl.out = << >> /\ fl.stage = "done"
        /\ fl.body = "stream" =>
              /\ ~fl.vetoed
              /\ fl.out = [k \in 1..Len(Listed) |-> LineOf(Listed[k])]
              /\ fl.ended => fl.pos = Len(fl.walk)
              /\ ~Truthy(fl.folders) =>
                    Len(fl.out) = Cardinality({ k \in 1..fl.pos :
                                                  ~fl.walk[k].dir })

\* a folder holding a.txt and the directory b, folders not asked for: the
\* stream has ended having listed a.txt alone
C19_Witness ==
    /\ fl.on /\ fl.ended /\ fl.folders = Undefined
    /\ fl.walk = << [name |-> "a.txt", dir |-> FALSE],
                    [name |-> "b", dir |-> TRUE] >>
    /\ fl.prepend = "http://cdn/"
    /\ fl.out = << "http://cdn/a.txt\n" >>

(***************************************************************************)
(* C20: node content is served only behind its permission check.           *)
(***************************************************************************)
CanRead == "statusCodeForMissingPerm can_read"
CanList == "statusCodeForMissingPerm can_list"

\* the permission check named perm returned 0 before the k-th call
PermittedBefore(k, perm) ==
    \E j \in 1..(k - 1) : calls[j].fn = perm /\ calls[j].arg = 0

\* a permission check of the request has been made
PermChecked ==
    \E j \in 1..Len(calls) : calls[j].fn \in {CanRead, CanList}

ServedBehindCheck ==
    /\ \A k \in 1..Len(calls) :
          /\ calls[k].fn = "serveFileNode" => PermittedBefore(k, CanRead)
          /\ calls[k].fn \in {"zipStreamFromFolder", "sendFolderList", "basicWeb"}
                => PermittedBefore(k, CanList)
    /\ ctx.server => PermittedBefore(Len(calls) + 1, CanList)

\* the node the check was made on is the one served: after the check the
\* node is not replaced and no default document is looked up
NodeIsFinal ==
    PermChecked => /\ node' = node
                   /\ \A k \in 1..Len(calls') :
                        k > Len(calls) => calls'[k].fn # "urlToNode"

\* C20: serveFileNode is called only after can_read returned 0, and
\* zipStreamFromFolder, sendFolderList and basicWeb are called and the server
\* header is set only after can_list returned 0, in the same request and on
\* the node left by the default-document substitution.
C20_ServedBehindCheck == []ServedBehindCheck /\ [][NodeIsFinal]_vars

\* a default document was looked up and the node left was served as a file
C20_Witness ==
    /\ pc = "done"
    /\ Hit("defaultDoc")
    /\ Called("serveFileNode")

====
